---- MODULE Spec2Model ----
(***************************************************************************)
(* A model of the BitFlag<T> container of src/src/lib.rs: one value of a   *)
(* primitive integer type T and the bit, bit-range and arithmetic          *)
(* operations over it.  Values of T are modelled as the mathematical       *)
(* integers of T's range; the bitwise operators work on the two's          *)
(* complement bit pattern of the value, as the machine does.               *)
(***************************************************************************)
EXTENDS Integers, Sequences, FiniteSets

VARIABLES
    T,         \* the backing type T of the container BitFlag<T>
    val,       \* BitFlag::val, the stored scalar
    panicked,  \* TRUE once a call has panicked (the thread has unwound)
    call,      \* the call just made: its arguments, the raw value before it, its result
    expect     \* expect[p]: the value last written to bit p (by the constructor,
               \* a set, a set_range or clear), as a caller keeps track of it

vars == <<T, val, panicked, call, expect>>

(***************************************************************************)
(* Bounds of the model.                                                    *)
(***************************************************************************)
\* Positions 0..MaxLow and size-1-MaxLow..size-1 are drawn as bit positions.
MaxLow == 1
\* Positions size..size+MaxOver (and -1-MaxOver..-1 for a signed T) are drawn.
MaxOver == 0

(***************************************************************************)
(* The primitive integer types.                                            *)
(***************************************************************************)
\* The backing types of the model: an unsigned and a signed one.
Types == {"u8", "i16"}

\* std::mem::size_of::<T>()
size_of(t) == IF t = "u8" THEN 1 ELSE 2

\* Whether T is a signed type.
Signed(t) == t = "i16"

\* The number of bits of T.
BITS(t) == size_of(t) * 8

\* T::MIN and T::MAX.
MinVal(t) == IF Signed(t) THEN -(2 ^ (BITS(t) - 1)) ELSE 0
MaxVal(t) == IF Signed(t) THEN 2 ^ (BITS(t) - 1) - 1 ELSE 2 ^ BITS(t) - 1

\* The values of T.
Values(t) == MinVal(t)..MaxVal(t)

\* The two's complement bit pattern of x, as a natural number below 2^BITS.
ToBits(t, x) == x % (2 ^ BITS(t))

\* The value of T with bit pattern u.
FromBits(t, u) ==
    IF Signed(t) /\ u >= 2 ^ (BITS(t) - 1) THEN u - 2 ^ BITS(t) ELSE u

\* `n as u8`: truncation to the low eight bits.
as_u8(n) == n % 256

\* T::from(b) for b: u8, which keeps the value.
T_from(t, b) == b

\* T::default()
T_default(t) == 0

RECURSIVE AndBit(_, _, _)
\* The bitwise AND of the n low bits of the bit patterns u and v, bit by bit.
AndBit(u, v, n) ==
    IF n = 0 THEN 0
    ELSE (u % 2) * (v % 2) + 2 * AndBit(u \div 2, v \div 2, n - 1)

RECURSIVE OrBit(_, _, _)
\* The bitwise OR of the n low bits of the bit patterns u and v, bit by bit.
OrBit(u, v, n) ==
    IF n = 0 THEN 0
    ELSE (IF u % 2 = 1 \/ v % 2 = 1 THEN 1 ELSE 0)
             + 2 * OrBit(u \div 2, v \div 2, n - 1)

\* The AND and the OR of two bytes, tabulated.
AndByte == [a \in 0..255 |-> [b \in 0..255 |-> AndBit(a, b, 8)]]
OrByte == [a \in 0..255 |-> [b \in 0..255 |-> OrBit(a, b, 8)]]

RECURSIVE AndBits(_, _, _)
\* The bitwise AND of the n low bits of u and v, byte by byte (n is size_of * 8).
AndBits(u, v, n) ==
    IF n = 0 THEN 0
    ELSE AndByte[u % 256][v % 256] + 256 * AndBits(u \div 256, v \div 256, n - 8)

RECURSIVE OrBits(_, _, _)
\* The bitwise OR of the n low bits of u and v, byte by byte (n is size_of * 8).
OrBits(u, v, n) ==
    IF n = 0 THEN 0
    ELSE OrByte[u % 256][v % 256] + 256 * OrBits(u \div 256, v \div 256, n - 8)

\* a & b
BitAnd(t, a, b) == FromBits(t, AndBits(ToBits(t, a), ToBits(t, b), BITS(t)))

\* a | b
BitOr(t, a, b) == FromBits(t, OrBits(ToBits(t, a), ToBits(t, b), BITS(t)))

\* !a
Not(t, a) == FromBits(t, 2 ^ BITS(t) - 1 - ToBits(t, a))

\* Whether `a << n` overflows: the shift amount is not in [0, BITS).
ShlOverflows(t, n) == n < 0 \/ n >= BITS(t)

\* a.wrapping_shl(n): the shift amount is taken modulo BITS, high bits fall off.
WrappingShl(t, a, n) ==
    FromBits(t, (ToBits(t, a) * 2 ^ (ToBits(t, n) % BITS(t))) % (2 ^ BITS(t)))

\* Whether `a + b` overflows T.
AddOverflows(t, a, b) == a + b < MinVal(t) \/ a + b > MaxVal(t)

\* a.wrapping_add(b)
WrappingAdd(t, a, b) == FromBits(t, ToBits(t, a + b))

\* The overflow-checks setting of the build: on (a debug profile), an overflowing
\* `<<` or `+` panics; off (a release profile), it wraps.
OverflowChecks == BOOLEAN

\* The result of an operation: whether it panicked, the container's scalar after
\* it, and the value it returned.
Result(p, v, r) == [panic |-> p, val |-> v, ret |-> r]

\* Option<T>
None == <<>>
Some(x) == <<x>>

(***************************************************************************)
(* impl<T: BitflagAble> BitFlag<T>.  `oc` is the build's overflow-checks   *)
(* setting, `v` the container's scalar.                                    *)
(***************************************************************************)
\* BitFlag::new
new(t) == T_default(t)

\* BitFlag::new_with_value
new_with_value(x) == x

\* BitFlag::size
size(t) == size_of(t) * 8

\* BitFlag::invert
invert(t, x) == Not(t, x)

\* is_overflow with `>` for `>=`: position size() passes the check.
is_overflow_off_by_one(t, pos) == pos > T_from(t, as_u8(size(t)))

\* BitFlag::is_overflow
is_overflow(t, pos) == pos >= T_from(t, as_u8(size(t)))

\* set_unchecked without the invert: clearing ANDs with the mask itself.
set_unchecked_no_invert(t, oc, v, pos, b) ==
    IF ShlOverflows(t, pos) /\ oc THEN Result(TRUE, v, FALSE)
    ELSE LET mask == WrappingShl(t, T_from(t, 1), pos)
         IN  IF b THEN Result(FALSE, BitOr(t, v, mask), FALSE)
             ELSE Result(FALSE, BitAnd(t, v, mask), FALSE)

\* BitFlag::set_unchecked
set_unchecked(t, oc, v, pos, b) ==
    IF ShlOverflows(t, pos) /\ oc THEN Result(TRUE, v, FALSE)
    ELSE LET mask == WrappingShl(t, T_from(t, 1), pos)
         IN  IF b THEN Result(FALSE, BitOr(t, v, mask), FALSE)
             ELSE Result(FALSE, BitAnd(t, v, invert(t, mask)), FALSE)

\* BitFlag::set
set(t, oc, v, pos, b) ==
    IF is_overflow(t, pos) THEN Result(FALSE, v, FALSE)
    ELSE set_unchecked(t, oc, v, pos, b)

\* BitFlag::get_unchecked
get_unchecked(t, oc, v, pos) ==
    IF ShlOverflows(t, pos) /\ oc THEN Result(TRUE, v, FALSE)
    ELSE LET mask == WrappingShl(t, T_from(t, 1), pos)
         IN  Result(FALSE, v, BitAnd(t, v, mask) # T_from(t, 0))

\* BitFlag::get
get(t, oc, v, pos) ==
    IF is_overflow(t, pos) THEN Result(FALSE, v, FALSE)
    ELSE get_unchecked(t, oc, v, pos)

\* BitFlag::raw
raw(v) == v

\* BitFlag::clear
clear(t) == T_default(t)

\* BitFlag::is_empty
is_empty(t, v) == T_from(t, 0) = v

\* BitFlag::iter: the sequence of size() booleans the iterator yields.
iter(t, v) ==
    [k \in 1..size(t) |-> get_unchecked(t, FALSE, v, T_from(t, as_u8(k - 1))).ret]

\* len that starts its scan at position 1.
len_skips_first(t, v) ==
    Cardinality({i \in 1..(size(t) - 1) :
                     get_unchecked(t, FALSE, v, T_from(t, as_u8(i))).ret})

\* BitFlag::len
len(t, v) ==
    Cardinality({i \in 0..(size(t) - 1) :
                     get_unchecked(t, FALSE, v, T_from(t, as_u8(i))).ret})

RECURSIVE set_range_loop_same_index(_, _, _, _, _, _, _)
\* The loop of set_range_unchecked without enumerate(): bit flag_pos of the target
\* is set from bit flag_pos of the source.
set_range_loop_same_index(t, oc, v, src, flag_pos, end, i) ==
    IF flag_pos > end THEN Result(FALSE, v, FALSE)
    ELSE LET put(s) ==
                 IF s.panic THEN Result(TRUE, v, FALSE)
                 ELSE set_range_loop_same_index(t, oc, s.val, src, flag_pos + 1, end, i + 1)
             got(g) ==
                 IF g.panic THEN Result(TRUE, v, FALSE)
                 ELSE put(set_unchecked(t, oc, v, T_from(t, flag_pos), g.ret))
         IN  got(get_unchecked(t, oc, src, T_from(t, flag_pos)))

RECURSIVE set_range_loop(_, _, _, _, _, _, _)
\* The loop of set_range_unchecked from flag_pos on, i being its enumerate() index.
set_range_loop(t, oc, v, src, flag_pos, end, i) ==
    IF flag_pos > end THEN Result(FALSE, v, FALSE)
    ELSE LET put(s) ==
                 IF s.panic THEN Result(TRUE, v, FALSE)
                 ELSE set_range_loop(t, oc, s.val, src, flag_pos + 1, end, i + 1)
             got(g) ==
                 IF g.panic THEN Result(TRUE, v, FALSE)
                 ELSE put(set_unchecked(t, oc, v, T_from(t, flag_pos), g.ret))
         IN  got(get_unchecked(t, oc, src, T_from(t, as_u8(i))))

\* BitFlag::set_range_unchecked
set_range_unchecked(t, oc, v, range, src) ==
    set_range_loop(t, oc, v, src, range[1], range[2], 0)

\* BitFlag::set_range
set_range(t, oc, v, range, src) ==
    IF range[1] > range[2] \/ is_overflow(t, T_from(t, range[2]))
    THEN Result(FALSE, v, FALSE)
    ELSE set_range_unchecked(t, oc, v, range, src)

RECURSIVE get_range_loop_unaligned(_, _, _, _, _, _, _)
\* The loop of get_range_unchecked without enumerate(): the bits are copied to the
\* positions they came from, not to 0.. of the copy.
get_range_loop_unaligned(t, oc, v, cpy, flag_pos, end, i) ==
    IF flag_pos > end THEN Result(FALSE, v, cpy)
    ELSE LET put(s) ==
                 IF s.panic THEN Result(TRUE, v, cpy)
                 ELSE get_range_loop_unaligned(t, oc, v, s.val, flag_pos + 1, end, i + 1)
             got(g) ==
                 IF g.panic THEN Result(TRUE, v, cpy)
                 ELSE put(set_unchecked(t, oc, cpy, T_from(t, flag_pos), g.ret))
         IN  got(get_unchecked(t, oc, v, T_from(t, flag_pos)))

RECURSIVE get_range_loop_exclusive(_, _, _, _, _, _, _)
\* The loop of get_range_unchecked over range.0..range.1, the end excluded.
get_range_loop_exclusive(t, oc, v, cpy, flag_pos, end, i) ==
    IF flag_pos >= end THEN Result(FALSE, v, cpy)
    ELSE LET put(s) ==
                 IF s.panic THEN Result(TRUE, v, cpy)
                 ELSE get_range_loop_exclusive(t, oc, v, s.val, flag_pos + 1, end, i + 1)
             got(g) ==
                 IF g.panic THEN Result(TRUE, v, cpy)
                 ELSE put(set_unchecked(t, oc, cpy, T_from(t, as_u8(i)), g.ret))
         IN  got(get_unchecked(t, oc, v, T_from(t, flag_pos)))

RECURSIVE get_range_loop(_, _, _, _, _, _, _)
\* The loop of get_range_unchecked from flag_pos on; cpy is the copy built so far.
get_range_loop(t, oc, v, cpy, flag_pos, end, i) ==
    IF flag_pos > end THEN Result(FALSE, v, cpy)
    ELSE LET put(s) ==
                 IF s.panic THEN Result(TRUE, v, cpy)
                 ELSE get_range_loop(t, oc, v, s.val, flag_pos + 1, end, i + 1)
             got(g) ==
                 IF g.panic THEN Result(TRUE, v, cpy)
                 ELSE put(set_unchecked(t, oc, cpy, T_from(t, as_u8(i)), g.ret))
         IN  got(get_unchecked(t, oc, v, T_from(t, flag_pos)))

\* BitFlag::get_range_unchecked
get_range_unchecked(t, oc, v, range) ==
    get_range_loop(t, oc, v, new(t), range[1], range[2], 0)

\* get_range without the start > end check.
get_range_no_order_check(t, oc, v, range) ==
    IF is_overflow(t, T_from(t, range[2]))
    THEN Result(FALSE, v, None)
    ELSE LET some(r) == Result(r.panic, v, Some(r.ret))
         IN  some(get_range_unchecked(t, oc, v, range))

\* BitFlag::get_range
get_range(t, oc, v, range) ==
    IF range[1] > range[2] \/ is_overflow(t, T_from(t, range[2]))
    THEN Result(FALSE, v, None)
    ELSE LET some(r) == Result(r.panic, v, Some(r.ret))
         IN  some(get_range_unchecked(t, oc, v, range))

\* Addition as the union of the flag sets: the bitwise OR of the two scalars.
add_as_union(t, oc, a, b) == Result(FALSE, a, BitOr(t, a, b))

\* impl Add<Self> for BitFlag<T>, impl Add<U> for BitFlag<T> and both AddAssign:
\* each is T's `+` on the two scalars.
add(t, oc, a, b) ==
    IF AddOverflows(t, a, b) /\ oc THEN Result(TRUE, a, a)
    ELSE Result(FALSE, a, WrappingAdd(t, a, b))

(***************************************************************************)
(* What a caller expects of the bits, by the rule "the last write wins".   *)
(***************************************************************************)
\* Bit k of x, by arithmetic on the bit pattern.
BitOf(t, x, k) == (ToBits(t, x) \div (2 ^ k)) % 2 = 1

\* The positions a BitFlag<T> has: [0, size()).
Positions(t) == 0..(size(t) - 1)

\* Whether pos is one of the positions of a BitFlag<T>.
Addressable(t, pos) == pos \in Positions(t)

\* Whether range is well formed: start <= end < size().
WellFormed(t, range) == range[1] <= range[2] /\ range[2] < size(t)

\* The number of bits of a well-formed range.
Width(range) == range[2] - range[1] + 1

\* The bits of x, one boolean per position.
BitsOf(t, x) == [p \in Positions(t) |-> BitOf(t, x, p)]

(***************************************************************************)
(* The inputs the calls are made with.                                     *)
(***************************************************************************)
\* The positions near both ends of [0, size()).
Window(t) == {p \in Positions(t) : p <= MaxLow \/ p >= size(t) - 1 - MaxLow}

\* Positions past the end, T::MAX, and for a signed T negative positions.
Outside(t) ==
    (size(t)..(size(t) + MaxOver)) \cup {MaxVal(t)}
        \cup (IF Signed(t) THEN (-1 - MaxOver)..(-1) ELSE {})

\* The positions (values of T) that set and get are called with.
PosInputs(t) == Window(t) \cup Outside(t)

\* The ranges (pairs of u8) with both ends among the drawn positions.
RangeInputs(t) ==
    LET ends == {p \in PosInputs(t) : p >= 0 /\ p <= 255} IN ends \X ends

\* Every range with both ends in [0, size() + MaxOver].
AllRangeInputs(t) ==
    LET ends == 0..(size(t) + MaxOver) IN ends \X ends

\* The source values of set_range: 0, and the sources of tests::test_set_range,
\* 0b1011 and all ones (T::MAX of an unsigned T).
SrcInputs(t) == {FromBits(t, u) : u \in {0, 11, 2 ^ BITS(t) - 1}}

\* The right-hand sides of the additions: the sources, and the small values the
\* documented examples add (1, 2, 3).
AddInputs(t) == SrcInputs(t) \cup {1, 2, 3}

\* The scalars a container is constructed from with new_with_value: 0b101110
\* (tests::test_get_range), T::MAX, T::MIN and all ones.
RawInputs(t) == {46, MaxVal(t), MinVal(t), FromBits(t, 2 ^ BITS(t) - 1)}

\* No call has been made, or its result has been dropped.
NoCall == [op |-> "none"]

(***************************************************************************)
(* The state after construction.                                           *)
(***************************************************************************)
\* A BitFlag<t> made by new() or by new_with_value(x) / from(x).
Constructed(t, raws) == {new(t)} \cup {new_with_value(x) : x \in raws}

InitOf(types, fresh) ==
    /\ T \in types
    /\ val \in Constructed(T, IF fresh THEN {} ELSE RawInputs(T))
    /\ panicked = FALSE
    /\ call = NoCall
    /\ expect = BitsOf(T, val)

Init == InitOf(Types, FALSE)

(***************************************************************************)
(* The calls.  Each is made by a caller that holds no pending result.      *)
(***************************************************************************)
Ready == ~panicked /\ call.op = "none"

\* bf.set(pos, b)
Set(pos, b, oc) ==
    /\ Ready
    /\ \E r \in {set(T, oc, val, pos, b)} :
           /\ val' = r.val
           /\ panicked' = r.panic
    /\ call' = [op |-> "set", pos |-> pos, bit |-> b, pre |-> val]
    /\ expect' = IF Addressable(T, pos) THEN [expect EXCEPT ![pos] = b] ELSE expect
    /\ UNCHANGED T

\* bf.get(pos)
Get(pos, oc) ==
    /\ Ready
    /\ \E r \in {get(T, oc, val, pos)} :
           /\ panicked' = r.panic
           /\ call' = [op |-> "get", pos |-> pos, pre |-> val, ret |-> r.ret]
    /\ UNCHANGED <<T, val, expect>>

\* bf.set_range(range, src)
SetRange(range, src, oc) ==
    /\ Ready
    /\ \E r \in {set_range(T, oc, val, range, src)} :
           /\ val' = r.val
           /\ panicked' = r.panic
    /\ call' = [op |-> "set_range", range |-> range, src |-> src, pre |-> val]
    /\ expect' = IF WellFormed(T, range)
                 THEN [p \in Positions(T) |->
                          IF range[1] <= p /\ p <= range[2]
                          THEN BitOf(T, src, p - range[1]) ELSE expect[p]]
                 ELSE expect
    /\ UNCHANGED T

\* bf.get_range(range)
GetRange(range, oc) ==
    /\ Ready
    /\ \E r \in {get_range(T, oc, val, range)} :
           /\ panicked' = r.panic
           /\ call' = [op |-> "get_range", range |-> range, pre |-> val, ret |-> r.ret]
    /\ UNCHANGED <<T, val, expect>>

\* bf.clear()
Clear ==
    /\ Ready
    /\ val' = clear(T)
    /\ call' = [op |-> "clear", pre |-> val]
    /\ expect' = [p \in Positions(T) |-> FALSE]
    /\ UNCHANGED <<T, panicked>>

\* bf.raw()
Raw ==
    /\ Ready
    /\ call' = [op |-> "raw", pre |-> val, ret |-> raw(val)]
    /\ UNCHANGED <<T, val, panicked, expect>>

\* bf.len()
LenOf ==
    /\ Ready
    /\ call' = [op |-> "len", pre |-> val, ret |-> len(T, val)]
    /\ UNCHANGED <<T, val, panicked, expect>>

\* bf.is_empty()
IsEmpty ==
    /\ Ready
    /\ call' = [op |-> "is_empty", pre |-> val, ret |-> is_empty(T, val)]
    /\ UNCHANGED <<T, val, panicked, expect>>

\* bf.iter().collect()
Iter ==
    /\ Ready
    /\ call' = [op |-> "iter", pre |-> val, ret |-> iter(T, val)]
    /\ UNCHANGED <<T, val, panicked, expect>>

\* bf + BitFlag::new_with_value(b): a new container, bf as it was
AddFlag(b, oc) ==
    /\ Ready
    /\ \E r \in {add(T, oc, val, new_with_value(b))} :
           /\ panicked' = r.panic
           /\ call' = [op |-> "add", form |-> "flag", rhs |-> b, pre |-> val,
                       ret |-> new_with_value(r.ret)]
    /\ UNCHANGED <<T, val, expect>>

\* bf + b: a new container, bf as it was
AddScalar(b, oc) ==
    /\ Ready
    /\ \E r \in {add(T, oc, b, val)} :
           /\ panicked' = r.panic
           /\ call' = [op |-> "add", form |-> "scalar", rhs |-> b, pre |-> val,
                       ret |-> new_with_value(r.ret)]
    /\ UNCHANGED <<T, val, expect>>

\* bf += b
AddAssignScalar(b, oc) ==
    /\ Ready
    /\ \E r \in {add(T, oc, b, val)} :
           /\ panicked' = r.panic
           /\ val' = IF r.panic THEN val ELSE r.ret
           /\ call' = [op |-> "add", form |-> "assign_scalar", rhs |-> b, pre |-> val,
                       ret |-> IF r.panic THEN val ELSE r.ret]
    /\ UNCHANGED <<T, expect>>

\* bf += BitFlag::new_with_value(b)
AddAssignFlag(b, oc) ==
    /\ Ready
    /\ \E r \in {add(T, oc, val, new_with_value(b))} :
           /\ panicked' = r.panic
           /\ val' = IF r.panic THEN val ELSE r.ret
           /\ call' = [op |-> "add", form |-> "assign_flag", rhs |-> b, pre |-> val,
                       ret |-> IF r.panic THEN val ELSE r.ret]
    /\ UNCHANGED <<T, expect>>

\* The caller is done with the result of its call and goes on to the next.
Drop ==
    /\ ~panicked
    /\ call.op # "none"
    /\ call' = NoCall
    /\ UNCHANGED <<T, val, panicked, expect>>

(***************************************************************************)
(* The specifications.                                                     *)
(***************************************************************************)
\* Single-bit calls on an unsigned and a signed container, at positions near the
\* ends of [0, size()) and outside it.
Next ==
    \/ \E pos \in PosInputs(T), b \in BOOLEAN, oc \in OverflowChecks : Set(pos, b, oc)
    \/ \E pos \in PosInputs(T), oc \in OverflowChecks : Get(pos, oc)
    \/ Clear
    \/ Raw
    \/ LenOf
    \/ IsEmpty
    \/ Iter
    \/ Drop

Spec == Init /\ [][Next]_vars

\* Sequences of writes (set, set_range, clear) to a container made by new().
InitSeq == InitOf(Types, TRUE)

NextSeq ==
    \/ \E pos \in PosInputs(T), b \in BOOLEAN, oc \in OverflowChecks : Set(pos, b, oc)
    \/ \E range \in RangeInputs(T), src \in SrcInputs(T), oc \in OverflowChecks :
           SetRange(range, src, oc)
    \/ Clear
    \/ Drop

SpecSeq == InitSeq /\ [][NextSeq]_vars

\* Range calls on a BitFlag<u8>, every range with ends in [0, size() + MaxOver].
InitRange == InitOf({"u8"}, FALSE)

NextRange ==
    \/ \E range \in AllRangeInputs(T), src \in SrcInputs(T), oc \in OverflowChecks :
           SetRange(range, src, oc)
    \/ \E range \in AllRangeInputs(T), oc \in OverflowChecks : GetRange(range, oc)
    \/ Clear
    \/ Drop

SpecRange == InitRange /\ [][NextRange]_vars

\* Additions on a BitFlag<u8>.
InitAdd == InitOf({"u8"}, TRUE)

NextAdd ==
    \/ \E b \in AddInputs(T), oc \in OverflowChecks : AddFlag(b, oc)
    \/ \E b \in AddInputs(T), oc \in OverflowChecks : AddScalar(b, oc)
    \/ \E b \in AddInputs(T), oc \in OverflowChecks : AddAssignScalar(b, oc)
    \/ \E b \in AddInputs(T), oc \in OverflowChecks : AddAssignFlag(b, oc)
    \/ Drop

SpecAdd == InitAdd /\ [][NextAdd]_vars

(***************************************************************************)
(* The claims.                                                             *)
(***************************************************************************)
\* The value of T whose bit pattern is the n low bits of x.
LowBits(t, x, n) == FromBits(t, ToBits(t, x) % (2 ^ n))

\* The number of set bits of x, by arithmetic on the bit pattern.
PopCount(t, x) == Cardinality({k \in Positions(t) : BitOf(t, x, k)})

\* C1: after set(p, b) with 0 <= p < size(), whatever the raw value was before,
\* get(p) returns b, and neither call panics.
C1_SetGetRoundTrip ==
    (call.op = "set" /\ Addressable(T, call.pos)) =>
        /\ ~panicked
        /\ \A oc \in OverflowChecks :
               get(T, oc, val, call.pos) = Result(FALSE, val, call.bit)

\* C1 happens: a set(p, false) has cleared a bit that was set, other bits staying set.
C1_Witness ==
    /\ call.op = "set"
    /\ Addressable(T, call.pos)
    /\ call.bit = FALSE
    /\ BitOf(T, call.pre, call.pos)
    /\ val # 0

\* C2: for p >= size(), set(p, v) leaves raw() as it was and get(p) returns false;
\* neither call panics.
C2_OverflowSafety ==
    /\ (call.op = "set" /\ call.pos >= size(T)) => (~panicked /\ val = call.pre)
    /\ (call.op = "get" /\ call.pos >= size(T)) =>
           (~panicked /\ call.ret = FALSE /\ val = call.pre)

\* C2 happens: get(size()) was called on a container whose bit 0 is set (the bit a
\* wrapped shift would have read).
C2_Witness ==
    /\ call.op = "get"
    /\ call.pos = size(T)
    /\ BitOf(T, val, 0)

\* C8: for every pos outside [0, size()), a negative pos of a signed T included,
\* set(pos, v) leaves raw() unchanged and get(pos) returns false, without a panic.
C8_Unaddressable ==
    (call.op \in {"set", "get"} /\ ~Addressable(T, call.pos)) =>
        /\ ~panicked
        /\ val = call.pre
        /\ call.op = "get" => call.ret = FALSE

\* C9: in every state iter() yields size() booleans, the k-th being bit k; len() is
\* the number of true values among them, the population count of raw(); and
\* is_empty() holds exactly when len() is 0.  The calls return these values.
C9_LenIterConsistent ==
    LET consistent(it, n) ==
            /\ Len(it) = size(T)
            /\ \A k \in Positions(T) : it[k + 1] = BitOf(T, val, k)
            /\ n = Cardinality({k \in 1..Len(it) : it[k]})
            /\ n = PopCount(T, val)
            /\ is_empty(T, val) <=> (n = 0)
    IN
    /\ consistent(iter(T, val), len(T, val))
    /\ call.op = "len" => call.ret = PopCount(T, val)
    /\ call.op = "iter" => call.ret = [k \in 1..size(T) |-> BitOf(T, val, k - 1)]
    /\ call.op = "is_empty" => (call.ret <=> PopCount(T, val) = 0)

\* C9 happens: len() was called on a signed container with its sign bit and some
\* but not all other bits set.
C9_Witness ==
    /\ call.op = "len"
    /\ Signed(T)
    /\ val < 0
    /\ call.ret > 1
    /\ call.ret < size(T)

\* C10: after any sequence of set, set_range and clear calls on a container made
\* by new(), get(p) is the value last written to p, for every p in [0, size()):
\* no call writes a bit it was not asked to write.
C10_LastWriteWins ==
    \A p \in Positions(T), oc \in OverflowChecks :
        get(T, oc, val, p).ret = expect[p]

\* C3: after set_range((start, end), v) with start <= end < size(), whatever the
\* raw value was before, get_range((start, end)) returns Some(v mod 2^(end-start+1)).
C3_RangeRoundTrip ==
    (call.op = "set_range" /\ WellFormed(T, call.range)) =>
        /\ ~panicked
        /\ \A oc \in OverflowChecks :
               get_range(T, oc, val, call.range)
                   = Result(FALSE, val, Some(LowBits(T, call.src, Width(call.range))))

\* C3 happens: a range narrower than the source's set bits was written over a
\* nonzero container.
C3_Witness ==
    /\ call.op = "set_range"
    /\ call.range = <<3, 6>>
    /\ call.src = MaxVal(T)
    /\ call.pre # 0
    /\ ~panicked

\* C4: get_range((start, end)) with start <= end < size() returns
\* Some((raw >> start) mod 2^(end-start+1)): bit i of the result is bit start+i of
\* the container, the bits above end-start are 0; the container is unchanged.
C4_GetRangeExtracts ==
    (call.op = "get_range" /\ WellFormed(T, call.range)) =>
        /\ ~panicked
        /\ val = call.pre
        /\ Len(call.ret) = 1
        /\ call.ret = Some(FromBits(T, (ToBits(T, call.pre) \div (2 ^ call.range[1]))
                                           % (2 ^ Width(call.range))))
        /\ \A i \in Positions(T) :
               BitOf(T, call.ret[1], i)
                   = (i < Width(call.range) /\ BitOf(T, call.pre, call.range[1] + i))

\* C4 happens: tests::test_get_range's get_range((1, 2)) on 0b101110 returned 0b11.
C4_Witness ==
    /\ call.op = "get_range"
    /\ call.range = <<1, 2>>
    /\ call.pre = 46
    /\ call.ret = Some(3)

\* C5: for a range with start > end or end >= size(), set_range leaves raw()
\* unchanged and get_range returns None, without a panic; for every range with
\* start <= end < size(), get_range returns Some.
C5_MalformedRange ==
    /\ (call.op = "set_range" /\ ~WellFormed(T, call.range)) =>
           (~panicked /\ val = call.pre)
    /\ (call.op = "get_range" /\ ~WellFormed(T, call.range)) =>
           (~panicked /\ call.ret = None)
    /\ (call.op = "get_range" /\ WellFormed(T, call.range)) =>
           (~panicked /\ call.ret # None)

\* C5 happens: get_range((3, 0)), the malformed range of tests::test_get_range,
\* was called on a container with those bits set.
C5_Witness ==
    /\ call.op = "get_range"
    /\ call.range = <<3, 0>>
    /\ call.pre = 46
    /\ call.ret = None

\* C6: after set_range((start, end), v) with start <= end < size(), bit start+i of
\* the container is bit i of v for i in 0..end-start; the bits of v above end-start
\* have no effect; on an all-zero container raw() is (v mod 2^(end-start+1)) * 2^start.
C6_SetRangeMapping ==
    (call.op = "set_range" /\ WellFormed(T, call.range)) =>
        /\ ~panicked
        /\ \A i \in 0..(call.range[2] - call.range[1]) :
               BitOf(T, val, call.range[1] + i) = BitOf(T, call.src, i)
        /\ \A oc \in OverflowChecks :
               set_range(T, oc, call.pre, call.range,
                         LowBits(T, call.src, Width(call.range))).val = val
        /\ call.pre = 0 =>
               val = FromBits(T, (ToBits(T, call.src) % (2 ^ Width(call.range)))
                                     * (2 ^ call.range[1]))

\* C6 happens: the top four bits of an all-zero container were set from 0b1011
\* (tests::test_set_range, on the model's 8-bit container).
C6_Witness ==
    /\ call.op = "set_range"
    /\ call.range = <<size(T) - 4, size(T) - 1>>
    /\ call.src = 11
    /\ call.pre = 0
    /\ ToBits(T, val) = 11 * (2 ^ (size(T) - 4))

\* C7 as stated: every addition returns (a + b) mod 2^w and never panics, also
\* when a + b exceeds T::MAX.
C7_AddWrapsNeverFaults ==
    call.op = "add" =>
        /\ ~panicked
        /\ call.ret = FromBits(T, ToBits(T, call.pre + call.rhs))

\* C7 amended: an addition whose sum fits T returns the sum; one whose sum does not
\* fit either panics (overflow checks on) or returns (a + b) mod 2^w (overflow checks
\* off); the four forms agree, and the assigning forms store what they return.
C7_AddSumOrPanic ==
    call.op = "add" =>
        /\ call.pre + call.rhs \in Values(T) =>
               (~panicked /\ call.ret = call.pre + call.rhs)
        /\ ~panicked => call.ret = FromBits(T, ToBits(T, call.pre + call.rhs))
        /\ val = IF call.form \in {"assign_scalar", "assign_flag"} /\ ~panicked
                 THEN call.ret ELSE call.pre

\* C7 happens: an addition whose sum exceeds T::MAX has returned, wrapped.
C7_Witness ==
    /\ call.op = "add"
    /\ call.pre + call.rhs > MaxVal(T)
    /\ ~panicked
    /\ call.ret = call.pre + call.rhs - 2 ^ BITS(T)

====
